---- MODULE Spec2Model ----
(***************************************************************************)
(* Model of nodejs-seedlink-stations-proxy (index.js): the HELLO/CAT       *)
(* protocol session over a TCP socket, the station cache with its refresh  *)
(* interval, and the orchestrator readSeedlinkStations that walks a list   *)
(* of servers.                                                             *)
(*                                                                         *)
(* A byte is a one-character string; a Buffer and a JavaScript string are  *)
(* sequences of them.  A QueryResult is an object: it is modelled by the   *)
(* session record that owns it, and the cache and the result lists hold    *)
(* references to it (the index of the session), as the code does.          *)
(***************************************************************************)
EXTENDS Integers, Sequences, FiniteSets, TLC

\* ------------------------------------------------------------------ bounds
\* HTTP requests (calls of readSeedlinkStations) in a run
MaxCalls == 2
\* servers named by all the requests of a run together, under Spec
MaxServers == 2
\* the same under SpecOverlap, where the clock stands still
MaxOverlapServers == 4
\* the clock: Date.now() takes the values 0..MaxTime
MaxTime == 1

\* configuration.REFRESH_INTERVAL_MS, in clock ticks
REFRESH_INTERVAL_MS == 1

\* the keys (server.url) of the servers a request can name
Hosts == {<<"a", ":", "1", "8", "0", "0", "0">>, <<"b", ":", "7">>}

\* null of requestData.version / identifier (never a byte sequence)
Null == <<"null">>
\* null of requestData.error
NoError == "null"

\* ------------------------------------------------- JavaScript primitives
Min(S) == CHOOSE x \in S : \A y \in S : x <= y
Max(S) == CHOOSE x \in S : \A y \in S : x >= y

\* the 0-based offsets at which pat occurs in s
Occurrences(s, pat) ==
  {i \in 0..(Len(s) - Len(pat)) : SubSeq(s, i + 1, i + Len(pat)) = pat}

\* String.prototype.indexOf
indexOf(s, pat) ==
  IF Occurrences(s, pat) = {} THEN -1 ELSE Min(Occurrences(s, pat))

\* Buffer.prototype.lastIndexOf(string): byte offset of the last
\* occurrence, -1 when there is none
lastIndexOf(s, pat) ==
  IF Occurrences(s, pat) = {} THEN -1 ELSE Max(Occurrences(s, pat))

\* an index of slice(): negative counts from the end, then clamped
SliceIndex(n, i) ==
  IF i < 0 THEN (IF n + i < 0 THEN 0 ELSE n + i) ELSE (IF i > n THEN n ELSE i)

\* String.prototype.slice / Buffer.prototype.slice (0-based, end excluded)
slice(s, from, to) ==
  SubSeq(s, SliceIndex(Len(s), from) + 1, SliceIndex(Len(s), to))

\* String.prototype.split with a non-empty separator
RECURSIVE split(_, _)
split(s, sep) ==
  LET i == indexOf(s, sep)
  IN IF i = -1 THEN <<s>>
     ELSE <<SubSeq(s, 1, i)>> \o split(SubSeq(s, i + Len(sep) + 1, Len(s)), sep)

WhiteSpace == {" ", "\t", "\n", "\r"}

RECURSIVE trimStart(_)
trimStart(s) ==
  IF s # <<>> /\ s[1] \in WhiteSpace THEN trimStart(Tail(s)) ELSE s

RECURSIVE trimEnd(_)
trimEnd(s) ==
  IF s # <<>> /\ s[Len(s)] \in WhiteSpace
  THEN trimEnd(SubSeq(s, 1, Len(s) - 1)) ELSE s

\* String.prototype.trim
trim(s) == trimEnd(trimStart(s))

\* Buffer.prototype.toString(): UTF-8 decoding.  An ASCII byte decodes to
\* its character; the byte 0xFF is no valid UTF-8 and decodes to U+FFFD.
toString(buffer) ==
  [i \in DOMAIN buffer |-> IF buffer[i] = "0xFF" THEN "U+FFFD" ELSE buffer[i]]

\* ------------------------------------------------------------ JS numbers
\* A Number is num/den with den a power of ten, or NaN.
NaN == [nan |-> TRUE, num |-> 0, den |-> 1]
FromInt(n) == [nan |-> FALSE, num |-> n, den |-> 1]
\* undefined: what destructuring yields for a missing element
undefined == <<"undefined">>

Digits == <<"0", "1", "2", "3", "4", "5", "6", "7", "8", "9">>
DigitValue(ch) == CHOOSE d \in 0..9 : Digits[d + 1] = ch

RECURSIVE Pow10(_)
Pow10(k) == IF k = 0 THEN 1 ELSE 10 * Pow10(k - 1)

\* the value of a sequence of decimal digits, 0 for the empty one
RECURSIVE DecimalValue(_)
DecimalValue(ds) ==
  IF ds = <<>> THEN 0
  ELSE 10 * DecimalValue(SubSeq(ds, 1, Len(ds) - 1)) + DigitValue(ds[Len(ds)])

\* Number(value) of a string of digits, ".", "-" and letters, or of
\* undefined: the empty string is 0, an optionally signed decimal literal
\* is its value, anything else is NaN
Number(s) ==
  IF s = undefined THEN NaN
  ELSE LET t == trim(s)
           neg == t # <<>> /\ t[1] = "-"
           body == IF neg THEN Tail(t) ELSE t
           dots == {i \in DOMAIN body : body[i] = "."}
           dot == IF dots = {} THEN Len(body) + 1 ELSE Min(dots)
           ds == SubSeq(body, 1, dot - 1) \o SubSeq(body, dot + 1, Len(body))
           wellFormed ==
             /\ \A i \in DOMAIN body : body[i] = "." \/ \E d \in 0..9 : Digits[d + 1] = body[i]
             /\ Cardinality(dots) <= 1
             /\ ds # <<>>
       IN IF t = <<>> THEN FromInt(0)
          ELSE IF ~wellFormed THEN NaN
          ELSE [nan |-> FALSE,
                num |-> (IF neg THEN -1 ELSE 1) * DecimalValue(ds),
                den |-> Pow10(IF dots = {} THEN 0 ELSE Len(body) - dot)]

\* ToBoolean of a Number: NaN and 0 are falsy
Truthy(n) == ~n.nan /\ n.num # 0

\* Number.isInteger
isInteger(n) == ~n.nan /\ (IF n.num < 0 THEN -n.num ELSE n.num) % n.den = 0

\* the decimal digits of a natural number
RECURSIVE DecimalDigits(_)
DecimalDigits(n) ==
  IF n < 10 THEN <<Digits[n + 1]>>
  ELSE DecimalDigits(n \div 10) \o <<Digits[(n % 10) + 1]>>

\* num/den without trailing zeros in the fraction
RECURSIVE Reduced(_)
Reduced(n) ==
  IF n.den > 1 /\ n.num % 10 = 0
  THEN Reduced([n EXCEPT !.num = @ \div 10, !.den = @ \div 10]) ELSE n

\* the fraction digits of m (below den), with the leading zeros
RECURSIVE FractionDigits(_, _)
FractionDigits(m, den) ==
  IF den = 1 THEN <<>>
  ELSE <<Digits[(m \div (den \div 10)) + 1]>> \o FractionDigits(m % (den \div 10), den \div 10)

\* Number to string, as the + operator does it
NumberToString(n) ==
  IF n.nan THEN <<"N", "a", "N">>
  ELSE LET neg == n.num < 0
           r == Reduced([n EXCEPT !.num = IF neg THEN -n.num ELSE n.num])
       IN (IF neg THEN <<"-">> ELSE <<>>)
          \o DecimalDigits(r.num \div r.den)
          \o (IF r.den = 1 THEN <<>> ELSE <<".">> \o FractionDigits(r.num % r.den, r.den))

\* --------------------------------------------------------- host tokens
DEFAULT_SEEDLINK_PORT == 18000

\* parseHost: "host:port" to the server object; a port that Number() makes
\* falsy (NaN or 0) becomes the default
parseHost(x) ==
  LET parts == split(x, <<":">>)
      host == parts[1]
      port == IF Len(parts) >= 2 THEN parts[2] ELSE undefined
      number == IF Truthy(Number(port)) THEN Reduced(Number(port))
                ELSE FromInt(DEFAULT_SEEDLINK_PORT)
  IN [url |-> host \o <<":">> \o NumberToString(number), host |-> host,
      port |-> number]

\* validateServer rejecting the privileged ports as well
validateServerPrivileged(server) ==
  IF ~isInteger(server.port) THEN "A submitted port is non-numerical."
  ELSE IF server.port.num < 1024 * server.port.den
          \/ server.port.num >= (2^16) * server.port.den
       THEN "A submitted port is outside the valid range."
       ELSE NoError

\* validateServer: the message of the Error it throws, NoError when it
\* returns
validateServer(server) ==
  IF ~isInteger(server.port) THEN "A submitted port is non-numerical."
  ELSE IF server.port.num < 0 \/ server.port.num >= (2^16) * server.port.den
       THEN "A submitted port is outside the valid range."
       ELSE NoError

\* ------------------------------------------------------ protocol literals
CRNL == <<"\r", "\n">>
CAT_COMMAND == <<"C", "A", "T">> \o CRNL
HELLO_COMMAND == <<"H", "E", "L", "L", "O">> \o CRNL
END_MARKER == <<"\n", "E", "N", "D">>
CAT_NOT_IMPLEMENTED ==
  <<"C","A","T"," ","c","o","m","m","a","n","d"," ","n","o","t"," ",
    "i","m","p","l","e","m","e","n","t","e","d">> \o CRNL

\* ----------------------------------------------------------------- parser
parseResponse(x) ==
  [network |-> trim(slice(x, 0, 2)),
   station |-> trim(slice(x, 3, 8)),
   site    |-> trim(slice(x, 9, Len(x)))]

parseBuffer(buffer) ==
  LET lines == split(toString(slice(buffer, 0, lastIndexOf(buffer, END_MARKER))),
                     <<"\n">>)
  IN [i \in DOMAIN lines |-> parseResponse(lines[i])]

\* ------------------------------------------------------ remote servers
\* What a remote server sends: a hello reply once the connection is open, a
\* cat reply once it has received the CAT command.
HELLO_REPLY == <<"v", "\r", "\n", "i", "\r", "\n">>
CATALOG_LINE_1 == <<"I","U"," ","A","N","M","O"," "," ","N","M">>
CATALOG_LINE_2 == <<"G","E"," ","W","L","F">>
CATALOG_REPLY == CATALOG_LINE_1 \o <<"\n">> \o CATALOG_LINE_2 \o END_MARKER

HelloReplies == {HELLO_REPLY, CAT_NOT_IMPLEMENTED, <<>>}
CatReplies == {CATALOG_REPLY, CAT_NOT_IMPLEMENTED, <<>>}
\* the replies of the servers that answer both commands
AnsweredHello == {HELLO_REPLY}
AnsweredCat == {CATALOG_REPLY, CAT_NOT_IMPLEMENTED}

\* ------------------------------------------------------------------ state
VARIABLES
  now,             \* the value Date.now() returned last
  cachedStations,  \* this.cachedStations: host -> reference to a result, 0 = no property
  calls,           \* the calls of readSeedlinkStations: servers, results, callback
  next,            \* the global `next`: the call whose closure it holds, 0 = unset
  sessions,        \* the invocations of checkSeedlink that opened a socket
  crashed          \* an exception left an event handler: the process is gone

vars == <<now, cachedStations, calls, next, sessions, crashed>>

CallIds == 1..MaxCalls
\* the lists of at most n servers
Inputs(n) == UNION {[1..k -> Hosts] : k \in 1..n}
Requested == LET RECURSIVE sum(_)
                 sum(c) == IF c = 0 THEN 0 ELSE Len(calls[c].input) + sum(c - 1)
             IN sum(MaxCalls)

\* the state a handler starts in; Date.now() returns t while it runs
State(t) ==
  [now |-> now, cachedStations |-> cachedStations, calls |-> calls,
   next |-> next, sessions |-> sessions, crashed |-> crashed, t |-> t]

Becomes(st) ==
  /\ now' = st.now
  /\ cachedStations' = st.cachedStations
  /\ calls' = st.calls
  /\ next' = st.next
  /\ sessions' = st.sessions
  /\ crashed' = st.crashed

NoCall ==
  [started |-> FALSE, query |-> <<>>, error |-> NoError, input |-> <<>>,
   servers |-> <<>>, results |-> <<>>, responses |-> 0, data |-> <<>>]

Init ==
  /\ now = 0
  /\ cachedStations = [h \in Hosts |-> 0]
  /\ calls = [c \in CallIds |-> NoCall]
  /\ next = 0
  /\ sessions = <<>>
  /\ crashed = FALSE

\* ----------------------------------------------------------- the program
\* isCached with >= for >: an entry is served one tick too long
isCachedOneTickMore(st, host) ==
  st.sessions[st.cachedStations[host]].requested >= st.now - REFRESH_INTERVAL_MS

\* isCached that never trusts an entry
isCachedNever(st, host) == FALSE

\* isCached: the entry of `host` was requested less than the refresh
\* interval ago
isCached(st, host) ==
  st.sessions[st.cachedStations[host]].requested > st.now - REFRESH_INTERVAL_MS

\* newRequestData with connected set from the start
newRequestDataConnected(st, call, server) ==
  [server |-> server, stations |-> <<>>, error |-> NoError, version |-> Null,
   identifier |-> Null, connected |-> TRUE, requested |-> st.now,
   call |-> call, socket |-> "connecting", buffer |-> <<>>, written |-> <<>>,
   wire |-> <<>>, callbacks |-> 0]

\* newRequestData, with the socket, the buffer and the bound finish of
\* checkSeedlink; `call` is the call whose callback closure the session holds
newRequestData(st, call, server) ==
  [server |-> server, stations |-> <<>>, error |-> NoError, version |-> Null,
   identifier |-> Null, connected |-> FALSE, requested |-> st.now,
   call |-> call, socket |-> "connecting", buffer |-> <<>>, written |-> <<>>,
   wire |-> <<>>, callbacks |-> 0]

\* the callback the HTTP handler passes to readSeedlinkStations: writes the
\* response.  A second writeHead/write on an ended response throws.
httpCallback(st, c) ==
  IF st.calls[c].responses = 0
  THEN [st EXCEPT !.calls[c].responses = 1, !.calls[c].data = st.calls[c].results]
  ELSE [st EXCEPT !.calls[c].responses = @ + 1, !.crashed = TRUE]

\* readSeedlinkStations storing every result
storesAnyResult(result) == TRUE

\* the test of readSeedlinkStations before it stores a result in the cache
storesResult(result) == result.error = NoError

\* finish without socket.destroy(): the socket stays open
destroyForgotten(ss) == ss

\* socket.destroy(): the connection is closed, no event of it follows, and
\* the bytes still on their way are lost
destroy(ss) == [ss EXCEPT !.socket = "destroyed", !.wire = <<>>]

RECURSIVE nextBody(_)
RECURSIVE checkSeedlink(_, _, _)
RECURSIVE resultCallback(_, _, _, _)

\* the callback answering the request before the list of servers is empty
resultCallbackEarly(st, c, server, ref) ==
  LET st2 == [st EXCEPT !.calls[c].results = Append(@, ref)]
  IN IF Len(st2.calls[c].servers) > 0
     THEN nextBody(httpCallback(st2, c)) ELSE httpCallback(st2, c)

\* the callback deleting the entry of a server whose probe failed
resultCallbackEvicting(st, c, server, ref) ==
  LET st1 == IF storesResult(st.sessions[ref])
             THEN [st EXCEPT !.cachedStations[server] = ref]
             ELSE [st EXCEPT !.cachedStations[server] = 0]
      st2 == [st1 EXCEPT !.calls[c].results = Append(@, ref)]
  IN IF Len(st2.calls[c].servers) > 0 THEN nextBody(st2) ELSE httpCallback(st2, c)

\* the callback of readSeedlinkStations given to checkSeedlink, in the
\* closure of call c and of `server`; `ref` is the result
resultCallback(st, c, server, ref) ==
  LET st1 == IF storesResult(st.sessions[ref])
             THEN [st EXCEPT !.cachedStations[server] = ref] ELSE st
      st2 == [st1 EXCEPT !.calls[c].results = Append(@, ref)]
  IN IF Len(st2.calls[c].servers) > 0 THEN nextBody(st2) ELSE httpCallback(st2, c)

\* checkSeedlink up to the return: a cache hit calls back at once, a miss
\* opens a socket
checkSeedlink(st0, c, server) ==
  LET st == [st0 EXCEPT !.now = st0.t]
  IN IF st.cachedStations[server] # 0 /\ isCached(st, server)
     THEN resultCallback(st, c, server, st.cachedStations[server])
     ELSE [st EXCEPT !.sessions = Append(@, newRequestData(st, c, server))]

\* the function the global `next` holds: the closure of the call that
\* assigned it last.  servers.pop() of an empty list is undefined, and
\* checkSeedlink then throws on server.url.
nextBody(st) ==
  LET c == st.next
      servers == st.calls[c].servers
  IN IF servers = <<>> THEN [st EXCEPT !.crashed = TRUE]
     ELSE checkSeedlink([st EXCEPT !.calls[c].servers = SubSeq(servers, 1, Len(servers) - 1)],
                        c, servers[Len(servers)])

\* finish calling back first and destroying the socket when the callback
\* has returned
finishCallbackFirst(st, s) ==
  LET ss == st.sessions[s]
      st1 == resultCallback([st EXCEPT !.sessions[s].callbacks = @ + 1],
                            ss.call, ss.server, s)
  IN IF st1.crashed THEN st1 ELSE [st1 EXCEPT !.sessions[s] = destroy(@)]

\* finish: destroy the socket, call back with the request data
finish(st, s) ==
  LET ss == st.sessions[s]
  IN resultCallback([st EXCEPT !.sessions[s] = [destroy(@) EXCEPT !.callbacks = @ + 1]],
                    ss.call, ss.server, s)

\* the "data" listener; `cat` is what the server answers to a CAT command
onData(st, s, data, cat) ==
  LET ss == st.sessions[s]
      buffer == ss.buffer \o data
      parts == split(toString(buffer), CRNL)
      st1 == [st EXCEPT !.sessions[s].connected = TRUE,
                        !.sessions[s].buffer = buffer]
  IN IF ss.version = Null /\ Len(parts) = 3
     THEN [st1 EXCEPT !.sessions[s].version = parts[1],
                      !.sessions[s].identifier = parts[2],
                      !.sessions[s].buffer = <<>>,
                      !.sessions[s].written = Append(@, CAT_COMMAND),
                      !.sessions[s].wire = @ \o cat]
     ELSE LET st2 == IF toString(buffer) = CAT_NOT_IMPLEMENTED
                     THEN finish([st1 EXCEPT !.sessions[s].error = "CATNOTIMPLEMENTED"],
                                 s)
                     ELSE st1
          IN IF ~st2.crashed /\ lastIndexOf(buffer, END_MARKER) = Len(buffer) - 4
             THEN finish([st2 EXCEPT !.sessions[s].stations = parseBuffer(buffer)],
                         s)
             ELSE st2

\* an "error" listener that runs twice for one failure
onErrorTwice(st, s) ==
  LET st1 == finish([st EXCEPT !.sessions[s].error = "ECONNREFUSED"], s)
  IN IF st1.crashed THEN st1 ELSE finish(st1, s)

\* the "error" listener
onError(st, s) ==
  finish([st EXCEPT !.sessions[s].error = "ECONNREFUSED"], s)

\* ---------------------------------------------------------------- actions
Times == now..MaxTime

\* an HTTP request with valid hosts: readSeedlinkStations(servers, callback)
Request(c, input, t) ==
  /\ ~crashed
  /\ ~calls[c].started
  /\ \A d \in CallIds : d < c => calls[d].started
  /\ Becomes(nextBody([State(t) EXCEPT
         !.calls[c] = [NoCall EXCEPT !.started = TRUE, !.input = input,
                                     !.servers = input],
         !.next = c]))

\* the host tokens a query can hold: a host alone, host:port with ports
\* that are an integer, zero, a letter, too large, a fraction, negative
Tokens ==
  { <<"a">>,
    <<"b", ":", "7">>,
    <<"a", ":", "0">>,
    <<"a", ":", "p">>,
    <<"a", ":", "7", "0", "0", "0", "0">>,
    <<"b", ":", "1", ".", "5">>,
    <<"b", ":", "-", "7">> }

\* the tokens of all the queries so far
Asked == LET RECURSIVE sum(_)
             sum(c) == IF c = 0 THEN 0 ELSE Len(calls[c].query) + sum(c - 1)
         IN sum(MaxCalls)

\* the queries of at most n tokens
Queries(n) == UNION {[1..k -> Tokens] : k \in 1..n}

\* servers.forEach(this.validateServer): the message of the first Error
\* thrown, NoError when every server passes
validateServers(servers) ==
  LET failing == {i \in DOMAIN servers : validateServer(servers[i]) # NoError}
  IN IF failing = {} THEN NoError ELSE validateServer(servers[Min(failing)])

\* the HTTP handler for ?host=tokens: parse the tokens, validate the
\* servers and answer 400 with the message when one fails, else call
\* readSeedlinkStations with the servers
Query(c, tokens, t) ==
  /\ ~crashed
  /\ ~calls[c].started
  /\ \A d \in CallIds : d < c => calls[d].started
  /\ LET servers == [i \in DOMAIN tokens |-> parseHost(tokens[i])]
         urls == [i \in DOMAIN tokens |-> servers[i].url]
     IN IF validateServers(servers) # NoError
        THEN /\ calls' = [calls EXCEPT ![c] =
                            [NoCall EXCEPT !.started = TRUE, !.query = tokens,
                                           !.error = validateServers(servers),
                                           !.responses = 1]]
             /\ UNCHANGED <<now, cachedStations, next, sessions, crashed>>
        ELSE Becomes(nextBody([State(t) EXCEPT
                 !.calls[c] = [NoCall EXCEPT !.started = TRUE, !.query = tokens,
                                             !.input = urls, !.servers = urls],
                 !.next = c]))

Live(s) == s \in DOMAIN sessions /\ sessions[s].socket # "destroyed"

\* the connection is established: the connect listener writes HELLO, and
\* the server sends its hello reply
Connect(s, hello) ==
  /\ ~crashed
  /\ Live(s)
  /\ sessions[s].socket = "connecting"
  /\ sessions' = [sessions EXCEPT ![s].socket = "open",
                                  ![s].written = Append(@, HELLO_COMMAND),
                                  ![s].wire = hello]
  /\ UNCHANGED <<now, cachedStations, calls, next, crashed>>

\* the next k bytes of the server arrive in one chunk
Data(s, k, cat, t) ==
  /\ ~crashed
  /\ Live(s)
  /\ sessions[s].socket = "open"
  /\ k \in 1..Len(sessions[s].wire)
  /\ LET wire == sessions[s].wire
     IN Becomes(onData([State(t) EXCEPT !.sessions[s].wire = SubSeq(wire, k + 1, Len(wire))],
                       s, SubSeq(wire, 1, k), cat))

\* the connection fails or breaks: "error" is emitted
SocketError(s, t) ==
  /\ ~crashed
  /\ Live(s)
  /\ Becomes(onError(State(t), s))

\* the socket was idle for configuration.SOCKET.TIMEOUT: the "timeout"
\* listener emits "error"
Timeout(s, t) ==
  /\ ~crashed
  /\ Live(s)
  /\ Becomes(onError(State(t), s))

\* the server's pending bytes arrive in one chunk
Reply(s, cat, t) ==
  /\ s \in DOMAIN sessions
  /\ Data(s, Len(sessions[s].wire), cat, t)

SessionIds == 1..(MaxServers + MaxOverlapServers)

\* the proxy under overlapping requests; every reply arrives in one chunk
Next ==
  \/ \E c \in CallIds, input \in Inputs(MaxServers - Requested), t \in Times :
        Request(c, input, t)
  \/ \E s \in SessionIds, hello \in AnsweredHello : Connect(s, hello)
  \/ \E s \in SessionIds, cat \in AnsweredCat, t \in Times : Reply(s, cat, t)
  \/ \E s \in SessionIds, t \in Times : SocketError(s, t)
  \/ \E s \in SessionIds, t \in Times : Timeout(s, t)

Spec == Init /\ [][Next]_vars

\* the same with longer requests, while the clock stands still
NextOverlap ==
  \/ \E c \in CallIds, input \in Inputs(MaxOverlapServers - Requested) :
        Request(c, input, now)
  \/ \E s \in SessionIds, hello \in AnsweredHello : Connect(s, hello)
  \/ \E s \in SessionIds, cat \in AnsweredCat : Reply(s, cat, now)
  \/ \E s \in SessionIds : SocketError(s, now)
  \/ \E s \in SessionIds : Timeout(s, now)

SpecOverlap == Init /\ [][NextOverlap]_vars

\* overlapping requests that name one server more than those of Spec,
\* while the clock stands still: the shortest lists with which the callback
\* of one request runs the closure of another
NextThrow ==
  \/ \E c \in CallIds, input \in Inputs(MaxServers + 1 - Requested) :
        Request(c, input, now)
  \/ \E s \in SessionIds, hello \in AnsweredHello : Connect(s, hello)
  \/ \E s \in SessionIds, cat \in AnsweredCat : Reply(s, cat, now)
  \/ \E s \in SessionIds : SocketError(s, now)
  \/ \E s \in SessionIds : Timeout(s, now)

SpecThrow == Init /\ [][NextThrow]_vars

\* a socket that stays idle times out
SpecOverlapLive ==
  SpecOverlap /\ \A s \in SessionIds : WF_vars(Timeout(s, now))

\* the proxy answering queries of host tokens, while the clock stands still
NextQuery ==
  \/ \E c \in CallIds, tokens \in Queries(MaxServers - Asked) :
        Query(c, tokens, now)
  \/ \E s \in SessionIds, hello \in AnsweredHello : Connect(s, hello)
  \/ \E s \in SessionIds, cat \in AnsweredCat : Reply(s, cat, now)
  \/ \E s \in SessionIds : SocketError(s, now)
  \/ \E s \in SessionIds : Timeout(s, now)

SpecQuery == Init /\ [][NextQuery]_vars

\* one request for one server; the replies arrive in chunks of any sizes
LongestReply == Len(CAT_NOT_IMPLEMENTED)

NextSession ==
  \/ \E h \in Hosts, t \in Times : Request(1, <<h>>, t)
  \/ \E hello \in HelloReplies : Connect(1, hello)
  \/ \E k \in 1..LongestReply, cat \in CatReplies, t \in Times : Data(1, k, cat, t)
  \/ \E t \in Times : SocketError(1, t)
  \/ \E t \in Times : Timeout(1, t)

SpecSession == Init /\ [][NextSession]_vars

\* ------------------------------------------------------------ properties
Opened(s) == s \in DOMAIN sessions
Done(s) == Opened(s) /\ sessions[s].socket = "destroyed"
LiveSessions == {s \in DOMAIN sessions : sessions[s].socket # "destroyed"}
\* the number of times reference s occurs in the results of all calls
Served(s) ==
  LET RECURSIVE count(_)
      count(c) ==
        IF c = 0 THEN 0
        ELSE Cardinality({i \in DOMAIN calls[c].results : calls[c].results[i] = s})
             + count(c - 1)
  IN count(MaxCalls)

\* C1: a session that opened a socket has called back exactly once when it
\* is done and not at all before, whatever events its socket delivered
CallbackExactlyOnce ==
  \A s \in DOMAIN sessions : sessions[s].callbacks = (IF Done(s) THEN 1 ELSE 0)

\* a session that received data and then ended has called back
CallbackExactlyOnceWitness ==
  \E s \in DOMAIN sessions :
    Done(s) /\ sessions[s].connected /\ sessions[s].callbacks = 1

\* C2: every session that opened a socket is eventually done
SessionEventuallyDone ==
  \A s \in SessionIds : (Opened(s) /\ ~Done(s)) ~> Done(s)

\* C3: every cache entry is a result without error, and a result with an
\* error is served only to the lookup that probed it
CacheHoldsSuccesses ==
  /\ \A h \in Hosts :
       cachedStations[h] # 0 => sessions[cachedStations[h]].error = NoError
  /\ \A s \in DOMAIN sessions : sessions[s].error # NoError => Served(s) <= 1

\* a host whose probe failed is probed again by the next lookup
CacheHoldsSuccessesWitness ==
  \E s1, s2 \in DOMAIN sessions :
    /\ s1 < s2
    /\ sessions[s1].server = sessions[s2].server
    /\ sessions[s1].error \in {"ECONNREFUSED", "CATNOTIMPLEMENTED"}
    /\ Done(s1)
    /\ cachedStations[sessions[s1].server] = 0

\* C4: the first lookup of a request for a host that has a cache entry: while
\* now - requested < REFRESH_INTERVAL_MS it yields that very entry and opens
\* no socket for it, afterwards it opens a socket
FreshEntryServed ==
  [][\A c \in CallIds :
       LET input == calls'[c].input
           h == input[Len(input)]
           entry == cachedStations[h]
       IN (~calls[c].started /\ calls'[c].started /\ entry # 0) =>
            IF now' - sessions[entry].requested < REFRESH_INTERVAL_MS
            THEN /\ calls'[c].results # <<>>
                 /\ calls'[c].results[1] = entry
                 /\ sessions'[entry] = sessions[entry]
                 /\ \A s \in DOMAIN sessions' \ DOMAIN sessions :
                      Len(input) > 1 /\ Len(calls'[c].servers) < Len(input) - 1
            ELSE /\ calls'[c].results = <<>>
                 /\ calls'[c].servers = SubSeq(input, 1, Len(input) - 1)
                 /\ Len(sessions') = Len(sessions) + 1
                 /\ sessions'[Len(sessions')].server = h
                 /\ sessions'[Len(sessions')].socket = "connecting"
                 /\ sessions'[Len(sessions')].requested = now'
    ]_vars

\* a request was served the result another request had probed
FreshEntryServedWitness ==
  \E c \in CallIds, i \in 1..(MaxServers + MaxOverlapServers) :
    /\ i \in DOMAIN calls[c].results
    /\ sessions[calls[c].results[i]].call # c

\* the number of places of the sequence q that hold x
Count(q, x) == Cardinality({i \in DOMAIN q : q[i] = x})
\* the servers of the results handed to the callback of call c
DataServers(c) ==
  [i \in DOMAIN calls[c].data |-> sessions[calls[c].data[i]].server]
\* nothing more can happen for the calls in progress
Halted == crashed \/ LiveSessions = {}

\* C5: a call is answered exactly once, with one result for each server
\* of its input, whatever the outcomes of its probes
EveryCallAnsweredOnceInFull ==
  \A c \in CallIds :
    calls[c].started =>
      /\ calls[c].responses <= 1
      /\ calls[c].responses = 1 =>
           /\ Len(calls[c].data) = Len(calls[c].input)
           /\ \A h \in Hosts : Count(DataServers(c), h) = Count(calls[c].input, h)
      /\ Halted => calls[c].responses = 1

\* C6 as claimed: a call that starts on an empty cache (the first call of
\* a run) opens at most one socket for each host
OneSessionForEachHost ==
  \A h \in Hosts :
    Cardinality({s \in DOMAIN sessions :
                   sessions[s].call = 1 /\ sessions[s].server = h}) <= 1

\* C6: a socket is opened for a host only when the lookup finds no cache
\* entry for it or an entry requested REFRESH_INTERVAL_MS or more ago; the
\* duplicate of a host whose probe failed is probed again
SessionOnlyOnMiss ==
  [][\A s \in DOMAIN sessions' \ DOMAIN sessions :
       LET entry == cachedStations'[sessions'[s].server]
       IN \/ entry = 0
          \/ /\ sessions'[entry].error = NoError
             /\ now' - sessions'[entry].requested >= REFRESH_INTERVAL_MS
    ]_vars

\* one call probed the same host twice, the first probe having failed
SessionOnlyOnMissWitness ==
  \E s1, s2 \in DOMAIN sessions :
    /\ s1 < s2
    /\ sessions[s1].call = sessions[s2].call
    /\ sessions[s1].server = sessions[s2].server
    /\ Done(s1)
    /\ sessions[s1].error # NoError
    /\ cachedStations[sessions[s1].server] = 0

\* the calls that started and were not answered yet
CallsInProgress ==
  {c \in CallIds : calls[c].started /\ calls[c].responses = 0}

ResultsInReverseOrder ==
  \A c \in CallIds :
    calls[c].responses >= 1 =>
      /\ Len(calls[c].data) = Len(calls[c].input)
      /\ \A i \in DOMAIN calls[c].data :
           i <= Len(calls[c].input) =>
             DataServers(c)[i] = calls[c].input[Len(calls[c].input) + 1 - i]

\* what the catalog reply lists, by the columns 0-1, 3-7 and 9-end
CATALOG_STATIONS ==
  << [network |-> <<"I","U">>, station |-> <<"A","N","M","O">>,
      site |-> <<"N","M">>],
     [network |-> <<"G","E">>, station |-> <<"W","L","F">>, site |-> <<>>] >>

\* the server of live session s keeps to the protocol: all it sends before
\* the CAT command is the two-line hello reply, all it sends after it is
\* the catalog reply
ServerKeepsProtocol(s) ==
  LET all == sessions[s].buffer \o sessions[s].wire
  IN IF sessions[s].version = Null
     THEN all = HELLO_REPLY
     ELSE /\ sessions[s].version = <<"v">>
          /\ sessions[s].identifier = <<"i">>
          /\ all = CATALOG_REPLY

\* C9: a session that ends on a data chunk of a server that keeps to the
\* protocol ends without error, with the two hello lines and one station
\* for each catalog line
CatalogOfProtocolServer ==
  [][\A s \in DOMAIN sessions :
       ( /\ sessions[s].socket = "open"
         /\ sessions'[s].socket = "destroyed"
         /\ sessions'[s].error # "ECONNREFUSED"
         /\ ServerKeepsProtocol(s) )
       => /\ sessions'[s].error = NoError
          /\ sessions'[s].version = <<"v">>
          /\ sessions'[s].identifier = <<"i">>
          /\ sessions'[s].stations = CATALOG_STATIONS
    ]_vars

ReceivedData(s) == sessions[s].buffer # <<>> \/ sessions[s].version # Null

\* C11: connected is true exactly for the sessions that received a data
\* chunk, whatever their outcome, and a session that ended without any data
\* ended with ECONNREFUSED and connected false
ConnectedIffDataReceived ==
  \A s \in DOMAIN sessions :
    /\ sessions[s].connected = ReceivedData(s)
    /\ (Done(s) /\ ~ReceivedData(s)) =>
         /\ sessions[s].error = "ECONNREFUSED"
         /\ sessions[s].connected = FALSE

\* a session received part of a reply and then failed: connected with an
\* error; and another outcome without data is not connected
ConnectedIffDataReceivedWitness ==
  \E s \in DOMAIN sessions :
    /\ Done(s)
    /\ sessions[s].error = "ECONNREFUSED"
    /\ sessions[s].connected
    /\ sessions[s].version = Null
    /\ sessions[s].buffer # <<>>

\* C12: when the callback of a session has been invoked its socket is
\* destroyed, also when the callback threw, and nothing is read from or
\* written to a destroyed socket: the session's record never changes again
ClosedBeforeCallback ==
  [][\A s \in DOMAIN sessions :
       /\ sessions'[s].callbacks > sessions[s].callbacks =>
            /\ sessions'[s].socket = "destroyed"
            /\ sessions'[s].wire = <<>>
       /\ sessions[s].socket = "destroyed" => sessions'[s] = sessions[s]
    ]_vars

\* the callback of a session that ended with a complete catalog threw, and
\* the socket of the session is destroyed
ClosedBeforeCallbackWitness ==
  /\ crashed
  /\ \E s \in DOMAIN sessions :
       /\ Done(s)
       /\ sessions[s].callbacks = 1
       /\ sessions[s].error = NoError
       /\ sessions[s].written = <<HELLO_COMMAND, CAT_COMMAND>>

\* the host and the port substring of a token: what stands before and after
\* its colon, the port being undefined when there is none
HostOf(x) ==
  IF indexOf(x, <<":">>) = -1 THEN x ELSE SubSeq(x, 1, indexOf(x, <<":">>))
PortSubstring(x) ==
  IF indexOf(x, <<":">>) = -1 THEN undefined
  ELSE SubSeq(x, indexOf(x, <<":">>) + 2, Len(x))
\* the substring is an integer: digits, with or without a sign before them
IntegerString(p) ==
  /\ p # undefined
  /\ LET ds == IF p # <<>> /\ p[1] = "-" THEN Tail(p) ELSE p
     IN ds # <<>> /\ \A i \in DOMAIN ds : \E d \in 0..9 : Digits[d + 1] = ds[i]
IntegerValue(p) ==
  IF p[1] = "-" THEN -DecimalValue(Tail(p)) ELSE DecimalValue(p)

\* C13: for every token of every query the parser keeps an integer port p,
\* with the key host:p, and substitutes 18000 in all other cases
DefaultPortOnlyWithoutInteger ==
  \A c \in CallIds : \A i \in DOMAIN calls[c].query :
    LET x == calls[c].query[i]
        p == PortSubstring(x)
        server == parseHost(x)
    IN IF IntegerString(p)
       THEN /\ server.port = FromInt(IntegerValue(p))
            /\ server.url = HostOf(x) \o <<":">> \o p
       ELSE /\ server.port = FromInt(DEFAULT_SEEDLINK_PORT)
            /\ server.url = HostOf(x) \o <<":", "1", "8", "0", "0", "0">>

\* a port that is an integer with 0 <= port < 65536
ValidPort(n) ==
  /\ ~n.nan
  /\ n.num >= 0
  /\ n.num % n.den = 0
  /\ n.num \div n.den < 65536

\* C14: a query is rejected exactly when the port of one of its parsed
\* servers is not a valid port; the rejection is answered at once, opens no
\* socket and changes no cache entry, and a rejected query never gets a
\* session later
RejectedBeforeAnyIO ==
  [][\A c \in CallIds :
       /\ (~calls[c].started /\ calls'[c].started /\ calls'[c].query # <<>>) =>
            LET q == calls'[c].query
                rejected == calls'[c].error # NoError
            IN /\ rejected <=> \E i \in DOMAIN q : ~ValidPort(parseHost(q[i]).port)
               /\ rejected =>
                    /\ calls'[c].responses = 1
                    /\ calls'[c].servers = <<>>
                    /\ sessions' = sessions
                    /\ cachedStations' = cachedStations
                    /\ next' = next
       /\ calls[c].error # NoError =>
            /\ calls'[c] = calls[c]
            /\ \A s \in DOMAIN sessions' : sessions'[s].call # c
    ]_vars

\* a query was rejected for a port out of range while the cache held the
\* result of an earlier query, and nothing was probed for it
RejectedBeforeAnyIOWitness ==
  \E c \in CallIds :
    /\ calls[c].error = "A submitted port is outside the valid range."
    /\ \E h \in Hosts : cachedStations[h] # 0
    /\ \A s \in DOMAIN sessions : sessions[s].call # c

\* the hosts whose cache entry a step changes
Rewritten == {h \in Hosts : cachedStations'[h] # cachedStations[h]}

\* C15: a step changes at most one cache entry, and only to the result of a
\* probe of that host that ends in this step without error; every other
\* step, a lookup or a failed probe, leaves all entries as they are, and an
\* entry, expired or not, is never removed
CacheChangedOnlyBySuccess ==
  [][/\ Cardinality(Rewritten) <= 1
     /\ \A h \in Rewritten :
          LET s == cachedStations'[h]
          IN /\ s \in DOMAIN sessions
             /\ sessions[s].socket = "open"
             /\ sessions'[s].socket = "destroyed"
             /\ sessions'[s].server = h
             /\ sessions'[s].error = NoError
     /\ \A h \in Hosts : cachedStations[h] # 0 => cachedStations'[h] # 0
    ]_vars

\* the entry of a host is expired and still there, after a lookup that
\* found it expired opened a probe and that probe failed
CacheChangedOnlyBySuccessWitness ==
  \E h \in Hosts, s \in DOMAIN sessions :
    /\ cachedStations[h] # 0
    /\ now - sessions[cachedStations[h]].requested >= REFRESH_INTERVAL_MS
    /\ s > cachedStations[h]
    /\ sessions[s].server = h
    /\ Done(s)
    /\ sessions[s].error # NoError

\* the buffer ends with the bytes of the marker
EndsWith(buffer, marker) ==
  /\ Len(buffer) >= Len(marker)
  /\ SubSeq(buffer, Len(buffer) - Len(marker) + 1, Len(buffer)) = marker

\* session s handles a data chunk in this step
HandlesData(s) ==
  /\ sessions[s].socket = "open"
  /\ sessions'[s] # sessions[s]
  /\ sessions'[s].error # "ECONNREFUSED"

\* C16: a data chunk ends the session without error exactly when the
\* accumulated buffer ends with the marker \nEND; with any other buffer
\* that is not the unsupported-command reply the session stays open
EndsOnlyOnEndMarker ==
  [][\A s \in DOMAIN sessions :
       HandlesData(s) =>
         /\ (sessions'[s].socket = "destroyed" /\ sessions'[s].error = NoError)
              <=> EndsWith(sessions'[s].buffer, END_MARKER)
         /\ (~EndsWith(sessions'[s].buffer, END_MARKER)
             /\ sessions'[s].buffer # CAT_NOT_IMPLEMENTED)
              => sessions'[s].socket = "open"
    ]_vars

\* C17: HELLO then CAT are written, each at most once and CAT only when the
\* hello reply has set version and identifier, and a session that ended
\* without error or with CATNOTIMPLEMENTED, or that holds stations, has
\* both set and has written CAT
ExchangeInOrder ==
  \A s \in DOMAIN sessions :
    LET ss == sessions[s]
        handshaken == ss.version # Null /\ ss.identifier # Null
    IN /\ ss.written \in {<<>>, <<HELLO_COMMAND>>, <<HELLO_COMMAND, CAT_COMMAND>>}
       /\ Len(ss.written) = 2 => handshaken
       /\ (Done(s) /\ ss.error \in {NoError, "CATNOTIMPLEMENTED"}) =>
            handshaken /\ Len(ss.written) = 2
       /\ ss.stations # <<>> => handshaken

\* a session of call c ends in this step
EndsSessionOf(c) ==
  \E s \in DOMAIN sessions :
    /\ sessions[s].call = c
    /\ sessions[s].socket # "destroyed"
    /\ sessions'[s].socket = "destroyed"

\* C18: overlapping calls do not interfere: the pending servers of a call
\* are taken only by that call's own request or by the callback of one of
\* its own sessions, no step throws, and a call is answered once, with as
\* many results as it has servers, all for its own servers
CallsIndependent ==
  [][/\ ~crashed'
     /\ \A c \in CallIds :
          /\ (calls[c].started /\ calls'[c].servers # calls[c].servers)
               => EndsSessionOf(c)
          /\ calls'[c].responses <= 1
          /\ calls'[c].responses = 1 =>
               /\ Len(calls'[c].data) = Len(calls'[c].input)
               /\ \A i \in DOMAIN calls'[c].data :
                    \E j \in DOMAIN calls'[c].input :
                      sessions'[calls'[c].data[i]].server = calls'[c].input[j]
    ]_vars

\* C19: a write to the cache replaces an entry by one that was requested at
\* the same time or later
NoLostUpdate ==
  [][\A h \in Hosts :
       (cachedStations[h] # 0 /\ cachedStations'[h] # cachedStations[h]) =>
         sessions'[cachedStations'[h]].requested
           >= sessions[cachedStations[h]].requested
    ]_vars

\* what the result of session s would be had the reply the server is
\* sending (the bytes in the buffer and those still on their way) arrived
\* in one chunk
InOneChunk(s) ==
  onData([State(now) EXCEPT !.sessions[s].buffer = <<>>,
                            !.sessions[s].wire = <<>>],
         s, sessions[s].buffer \o sessions[s].wire, <<>>).sessions[s]

\* C20: a data chunk that ends the session or completes the handshake
\* leaves the result that the whole reply in one chunk would have left:
\* the same error, version, identifier and stations
ChunkingIndependent ==
  [][\A s \in DOMAIN sessions :
       ( /\ HandlesData(s)
         /\ \/ sessions'[s].socket = "destroyed"
            \/ sessions'[s].version # sessions[s].version )
       => /\ sessions'[s].socket = "destroyed"
               <=> InOneChunk(s).socket = "destroyed"
          /\ sessions'[s].error = InOneChunk(s).error
          /\ sessions'[s].version = InOneChunk(s).version
          /\ sessions'[s].identifier = InOneChunk(s).identifier
          /\ sessions'[s].stations = InOneChunk(s).stations
    ]_vars

====
